---- MODULE Spec2Model ----
(***************************************************************************)
(* A model of the reduced-tree fork choice core (src/src/lib.rs): the      *)
(* skip-list ancestor lookup, the least-common-ancestor walk and the       *)
(* Tree with its add_node / find_prev_in_tree insertion.                   *)
(*                                                                         *)
(* Hash256 values are small naturals: 0 is the all-zero hash               *)
(* (Hash256::default()), 1..NumBlocks are the blocks of a chain (1 is the  *)
(* genesis block, slot 0) and NumBlocks+1 is an identifier that is never   *)
(* put into the Block Store.  Option<T> is a sequence of length at most 1: *)
(* None is << >> and Some(x) is << x >>.  Slots are u64 in the source; the *)
(* values used here stay far below 2^64, so no arithmetic wraps.           *)
(***************************************************************************)
EXTENDS Integers, Sequences, FiniteSets, TLC

\* ------------------------------------------------------------ bounds
\* number of blocks of a chain (block 1 is genesis)
NumBlocks == 4
\* a block's slot is its parent's slot plus a gap: one gap in 1..MaxGap for
\* the whole chain, or a gap in 1..MaxMixedGap for each block
MaxGap == 6
MaxMixedGap == 3
\* target slots asked of get_ancestor_hash_at_slot are 0..MaxQuerySlot
MaxQuerySlot == 18
\* Tree::new is given a height ordinal in 0..MaxHeight
MaxHeight == 1
\* the keys inserted into a SortedList alone are 0..MaxKey
MaxKey == 4

\* ------------------------------------------------------------ constants
SKIP_LIST_LEN == 16

\* ------------------------------------------------------------ values
ZERO == 0
Absent == NumBlocks + 1
Genesis == 1
ChainBlocks == 1..NumBlocks
Hashes == 0..(NumBlocks + 1)
\* the identifiers Tree::new is given as root
Roots == {Genesis, Genesis + 1}
\* add_node(h, block_hash) is called with block_hash = h or the zero hash
BlockHashArgs(h) == {h, ZERO}

None == << >>
Some(x) == << x >>
IsSome(o) == Len(o) = 1
Unwrap(o) == o[1]

\* chain            the blocks the external collaborator has seen
\* store .. blocks_at_height   the fields of Tree
\* pc, hash, block_hash, stack  the add_node call in progress: its
\*                  arguments and the ranges of the find_prev_in_tree
\*                  frames on the call stack (innermost last)
\* result           what the last completed add_node returned
\* call             the last call of a store function (SpecFn)
VARIABLES chain, store, nodes, root, slots_at_height, blocks_at_height,
          pc, hash, block_hash, stack, result, call

vars == << chain, store, nodes, root, slots_at_height, blocks_at_height,
           pc, hash, block_hash, stack, result, call >>

\* ------------------------------------------------------------ chains
\* The chain the external collaborator has seen: every block has a slot and
\* a parent block of a strictly smaller slot (genesis has none).
RECURSIVE SlotFrom(_, _, _)
SlotFrom(par, gap, h) ==
    IF h = Genesis THEN 0 ELSE SlotFrom(par, gap, par[h]) + gap[h]

ChainOf(par, gap) ==
    [h \in ChainBlocks |->
        [slot |-> SlotFrom(par, gap, h),
         parent |-> IF h = Genesis THEN ZERO ELSE par[h]]]

\* Parent maps, one per shape of tree: blocks are numbered so that a block's
\* parent has a smaller number and parents do not decrease with the number.
ParentMaps ==
    { p \in [ChainBlocks -> ChainBlocks] :
        /\ p[Genesis] = Genesis
        /\ \A h \in ChainBlocks \ {Genesis} : p[h] < h
        /\ \A h \in ChainBlocks \ {Genesis, NumBlocks} : p[h] <= p[h + 1] }

\* chains with a gap in 1..MaxMixedGap chosen for every block
MixedChains ==
    { ChainOf(par, gap) :
        par \in ParentMaps,
        gap \in { g \in [ChainBlocks -> 1..MaxMixedGap] : g[Genesis] = 1 } }

\* chains whose blocks all sit the same number of slots after their parent
UniformChains ==
    { ChainOf(par, [h \in ChainBlocks |-> g]) : par \in ParentMaps, g \in 1..MaxGap }

ChainFamily == MixedChains \cup UniformChains

\* the ancestor of block h (h itself excluded) that sits at slot s, if any
RECURSIVE TrueAncestorAt(_, _, _)
TrueAncestorAt(ch, h, s) ==
    LET p == ch[h].parent IN
    IF p = ZERO THEN None
    ELSE IF ch[p].slot = s THEN Some(p)
    ELSE IF ch[p].slot < s THEN None
    ELSE TrueAncestorAt(ch, p, s)

\* the strict ancestors of block h
RECURSIVE TrueAncestors(_, _)
TrueAncestors(ch, h) ==
    LET p == ch[h].parent IN
    IF p = ZERO THEN {} ELSE {p} \cup TrueAncestors(ch, p)

\* the deepest block that is a strict ancestor of both a and b, if any
TrueLca(ch, a, b) ==
    LET common == TrueAncestors(ch, a) \cap TrueAncestors(ch, b) IN
    IF common = {} THEN None
    ELSE Some(CHOOSE x \in common : \A y \in common : ch[y].slot <= ch[x].slot)

\* a and b lie on different branches
Diverging(ch, a, b) ==
    /\ a # b
    /\ a \notin TrueAncestors(ch, b)
    /\ b \notin TrueAncestors(ch, a)

\* Block Store populate: entry i of a block's skip list is the ancestor
\* exactly 2^i slots behind it; an entry with no such ancestor keeps the
\* all-zero hash.
SkipListOf(ch, h) ==
    [i \in 0..(SKIP_LIST_LEN - 1) |->
        LET a == TrueAncestorAt(ch, h, ch[h].slot - 2^i) IN
        IF IsSome(a) THEN Unwrap(a) ELSE ZERO]

StoreOf(ch) ==
    [h \in ChainBlocks |->
        [slot |-> ch[h].slot, ancestor_skip_list |-> SkipListOf(ch, h)]]

\* ------------------------------------------------------------ u64 helpers
\* (exponents up to 30 cover every value the model computes)
IsPowerOfTwo(n) == \E k \in 0..30 : n = 2^k
TrailingZeros(n) == CHOOSE k \in 0..30 : n = 2^k
NextPowerOfTwo(n) ==
    IF n <= 1 THEN 1 ELSE 2^(CHOOSE k \in 1..30 : 2^(k-1) < n /\ n <= 2^k)

\* ------------------------------------------------------------ store
StoreGet(st, h) == IF h \in DOMAIN st THEN Some(st[h]) ELSE None

\* ------------------------------------------------------------ ancestor
\* One run of get_ancestor_hash_at_slot: its return value (out), the skip
\* list positions it read (idx), the values cursor.slot - slot it computed
\* (deltas), whether an array access was out of bounds (panic) and the slot
\* of the last cursor it looked at (at; None when start is not stored).
Ret(o, idx, deltas, panic, at) ==
    [out |-> o, idx |-> idx, deltas |-> deltas, panic |-> panic, at |-> at]

\* the index of the skip entry the cursor jumps to when delta is at most
\* SKIP_LIST_LEN and no power of two
JumpIndexOff(delta) == NextPowerOfTwo(delta)
JumpIndex(delta) == NextPowerOfTwo(delta) - 1

RECURSIVE AncestorLoop(_, _, _, _, _)
AncestorLoop(slot, block, st, idx, deltas) ==
    IF slot >= block.slot THEN Ret(None, idx, deltas, FALSE, Some(block.slot))
    ELSE
      LET delta == block.slot - slot
          ds == deltas \cup {delta}
          Jump(i) ==
              IF i \notin DOMAIN block.ancestor_skip_list
              THEN Ret(None, idx \cup {i}, ds, TRUE, Some(block.slot))
              ELSE LET next == StoreGet(st, block.ancestor_skip_list[i]) IN
                   IF IsSome(next)
                   THEN AncestorLoop(slot, Unwrap(next), st, idx \cup {i}, ds)
                   ELSE Ret(None, idx \cup {i}, ds, FALSE, Some(block.slot))
      IN IF delta > SKIP_LIST_LEN THEN Jump(SKIP_LIST_LEN - 1)
         ELSE IF IsPowerOfTwo(delta)
         THEN LET i == TrailingZeros(delta) IN
              IF i \notin DOMAIN block.ancestor_skip_list
              THEN Ret(None, idx \cup {i}, ds, TRUE, Some(block.slot))
              ELSE Ret(Some(block.ancestor_skip_list[i]), idx \cup {i}, ds, FALSE,
                       Some(block.slot))
         ELSE Jump(JumpIndex(delta))

\* a lookup that answers start itself when asked for start's own slot
AncestorRunSelf(slot, start, st) ==
    LET b == StoreGet(st, start) IN
    IF IsSome(b)
    THEN IF slot = Unwrap(b).slot THEN Ret(Some(start), {}, {}, FALSE, Some(slot))
         ELSE AncestorLoop(slot, Unwrap(b), st, {}, {})
    ELSE Ret(None, {}, {}, FALSE, None)

AncestorRun(slot, start, st) ==
    LET b == StoreGet(st, start) IN
    IF IsSome(b) THEN AncestorLoop(slot, Unwrap(b), st, {}, {})
    ELSE Ret(None, {}, {}, FALSE, None)

get_ancestor_hash_at_slot(slot, start, st) == AncestorRun(slot, start, st).out

\* ------------------------------------------------------------ lca
RECURSIVE LcaLoop(_, _, _)
LcaLoop(a, b, st) ==
    IF a.ancestor_skip_list[0] = b.ancestor_skip_list[0]
    THEN Some(a.ancestor_skip_list[0])
    ELSE IF a.slot = 0 \/ b.slot = 0 THEN None
    ELSE LET na == StoreGet(st, a.ancestor_skip_list[0])
             nb == StoreGet(st, b.ancestor_skip_list[0])
         IN IF IsSome(na) /\ IsSome(nb)
            THEN LcaLoop(Unwrap(na), Unwrap(nb), st)
            ELSE None

\* the cursor of `from_root` brought back to slot `slot`
\* (store.get(&get_ancestor_hash_at_slot(slot, from_root, store)?)?)
AlignTo(slot, from_root, st) ==
    LET h == get_ancestor_hash_at_slot(slot, from_root, st) IN
    IF IsSome(h) THEN StoreGet(st, Unwrap(h)) ELSE None

\* the alignment without its second arm (b.slot > a.slot)
AlignedPairOneArm(a_root, b_root, st) ==
    LET a == st[a_root]
        b == st[b_root]
    IN IF a.slot > b.slot THEN << AlignTo(b.slot, a_root, st), Some(b) >>
       ELSE << Some(a), Some(b) >>

\* the two cursors after the alignment of lines 176-180
AlignedPair(a_root, b_root, st) ==
    LET a == st[a_root]
        b == st[b_root]
    IN IF a.slot > b.slot THEN << AlignTo(b.slot, a_root, st), Some(b) >>
       ELSE IF b.slot > a.slot THEN << Some(a), AlignTo(a.slot, b_root, st) >>
       ELSE << Some(a), Some(b) >>

find_least_common_ancestor(a_root, b_root, st) ==
    IF a_root \notin DOMAIN st \/ b_root \notin DOMAIN st THEN None
    ELSE LET ab == AlignedPair(a_root, b_root, st) IN
         IF IsSome(ab[1]) /\ IsSome(ab[2])
         THEN LcaLoop(Unwrap(ab[1]), Unwrap(ab[2]), st)
         ELSE None

\* ------------------------------------------------------------ SortedList
\* SortedList<K>(BTreeMap<K, ()>): the keys in ascending order, each once.
SortedNew == << >>

\* insert that puts the key at the end whatever the list holds
SortedInsertAppend(list, key) == Append(list, key)

SortedInsert(list, key) ==
    IF \E i \in 1..Len(list) : list[i] = key THEN list
    ELSE LET below == Cardinality({ i \in 1..Len(list) : list[i] < key }) IN
         SubSeq(list, 1, below) \o << key >> \o SubSeq(list, below + 1, Len(list))

SortedLen(list) == Len(list)

SortedNth(list, n) == IF n < Len(list) THEN Some(list[n + 1]) ELSE None

\* HashMap::get
MapGet(m, k) == IF k \in DOMAIN m THEN Some(m[k]) ELSE None

\* HashMap::insert
\* insert that keeps no other key
MapInsertOnly(m, k, v) == [x \in {k} |-> v]

MapInsert(m, k, v) == [x \in (DOMAIN m) \cup {k} |-> IF x = k THEN v ELSE m[x]]

\* Vec::contains
Contains(vec, x) == \E i \in 1..Len(vec) : vec[i] = x

\* ------------------------------------------------------------ tree
DefaultNode ==
    [parent_hash |-> None, children |-> << >>, score |-> 0, height |-> 0,
     block_hash |-> ZERO]

slot_at_height(height) == SortedNth(slots_at_height, height)

find_ancestor_at_slot(child, slot) == get_ancestor_hash_at_slot(slot, child, store)

find_ancestor_at_height(child, height) ==
    LET s == slot_at_height(height) IN
    IF IsSome(s) THEN find_ancestor_at_slot(child, Unwrap(s)) ELSE None

exists_above_height(h, height) ==
    LET ancestor_at_height == find_ancestor_at_height(h, height)
        blocks == MapGet(blocks_at_height, height)
    IN IF IsSome(ancestor_at_height) /\ IsSome(blocks)
       THEN Some(Contains(Unwrap(blocks), Unwrap(ancestor_at_height)))
       ELSE None

exists_between_heights(h, lo, hi) ==
    LET low_blocks == MapGet(blocks_at_height, lo)
        high_blocks == MapGet(blocks_at_height, hi)
        low_ancestor == find_ancestor_at_height(h, lo)
        high_ancestor == find_ancestor_at_height(h, hi)
    IN IF IsSome(low_blocks) /\ IsSome(high_blocks)
          /\ IsSome(low_ancestor) /\ IsSome(high_ancestor)
       THEN Some(Contains(Unwrap(low_blocks), Unwrap(low_ancestor))
                 /\ ~Contains(Unwrap(high_blocks), Unwrap(high_ancestor)))
       ELSE None

\* Range<usize>::len
RangeLen(r) == IF r[2] > r[1] THEN r[2] - r[1] ELSE 0

\* One frame of find_prev_in_tree(h, r): it returns None ("none"), returns
\* self.nodes.get_mut(&key) ("get") or calls itself on `next` ("recurse").
FrameNone == [kind |-> "none", key |-> ZERO, next |-> << 0, 0 >>]
FrameGet(k) == [kind |-> "get", key |-> k, next |-> << 0, 0 >>]
FrameRecurse(r) == [kind |-> "recurse", key |-> ZERO, next |-> r]

Frame(h, r) ==
    IF RangeLen(r) = 0 \/ r[2] > SortedLen(slots_at_height) THEN FrameNone
    ELSE
      LET mid_height == RangeLen(r) \div 2
          mid_slot == slot_at_height(mid_height)
      IN IF ~IsSome(mid_slot) THEN FrameNone
         ELSE
           LET mid_ancestor == find_ancestor_at_slot(h, Unwrap(mid_slot)) IN
           IF ~IsSome(mid_ancestor) THEN FrameNone
           ELSE
             LET above == exists_above_height(h, mid_height) IN
             IF ~IsSome(above) THEN FrameNone
             ELSE IF Unwrap(above)
             THEN LET between ==
                          exists_between_heights(h, mid_height, mid_height + 1)
                  IN IF ~IsSome(between) THEN FrameNone
                     ELSE IF Unwrap(between) THEN FrameGet(Unwrap(mid_ancestor))
                     ELSE FrameRecurse(<< mid_height, r[2] >>)
             ELSE FrameRecurse(<< r[1], mid_height >>)

\* The part of add_node after find_prev_in_tree returned the node stored
\* under prev_key (lines 59-89).  prev_in_tree is a clone of that node.
\* The result is [ok, nodes]: whether add_node returns Some(()) and the node
\* mapping it leaves behind.
RECURSIVE ChildrenLoop(_, _, _, _, _, _)
ChildrenLoop(i, prev_in_tree, h, bh, ns, parent) ==
    IF i > Len(prev_in_tree.children)
    THEN [ok |-> TRUE,
          nodes |-> MapInsert(ns, h, [DefaultNode EXCEPT !.block_hash = bh,
                                                         !.parent_hash = parent])]
    ELSE
      LET child_hash == prev_in_tree.children[i]
          ancestor_hash == find_least_common_ancestor(h, child_hash, store)
      IN IF ~IsSome(ancestor_hash) THEN [ok |-> FALSE, nodes |-> ns]
         ELSE IF Unwrap(ancestor_hash) # prev_in_tree.block_hash
         THEN IF child_hash \notin DOMAIN ns THEN [ok |-> FALSE, nodes |-> ns]
              ELSE
                LET common_ancestor ==
                        [DefaultNode EXCEPT
                            !.block_hash = Unwrap(ancestor_hash),
                            !.parent_hash = Some(prev_in_tree.block_hash)]
                    reparented ==
                        [ns EXCEPT ![child_hash].parent_hash =
                                       Some(common_ancestor.block_hash)]
                IN ChildrenLoop(i + 1, prev_in_tree, h, bh,
                                MapInsert(reparented, common_ancestor.block_hash,
                                          common_ancestor),
                                Some(common_ancestor.block_hash))
         ELSE ChildrenLoop(i + 1, prev_in_tree, h, bh, ns, parent)

AddNodeBody(prev_key, h, bh, ns) ==
    LET prev_in_tree == ns[prev_key] IN
    IF Len(prev_in_tree.children) = 0
    THEN [ok |-> TRUE,
          nodes |-> MapInsert(ns, h,
                       [DefaultNode EXCEPT
                           !.block_hash = bh,
                           !.parent_hash = Some(prev_in_tree.block_hash)])]
    ELSE ChildrenLoop(1, prev_in_tree, h, bh, ns, Some(prev_in_tree.block_hash))

NoCall ==
    [op |-> "none", slot |-> 0, a |-> ZERO, b |-> ZERO,
     out |-> None, idx |-> {}, deltas |-> {}, panic |-> FALSE, at |-> None]

\* ------------------------------------------------------------ Spec
\* Tree::new that registers slot 0 as the first height
TreeNewRegistering(r, height) ==
    /\ store = << >>
    /\ nodes = MapInsert(<< >>, r, DefaultNode)
    /\ root = r
    /\ slots_at_height = SortedInsert(SortedNew, 0)
    /\ blocks_at_height = MapInsert(<< >>, height, << r >>)

\* Tree::new with the height argument also stored in the root node
TreeNewNodeHeight(r, height) ==
    /\ store = << >>
    /\ nodes = MapInsert(<< >>, r, [DefaultNode EXCEPT !.height = height])
    /\ root = r
    /\ slots_at_height = SortedNew
    /\ blocks_at_height = MapInsert(<< >>, height, << r >>)

\* Tree::new(root, height)
TreeNew(r, height) ==
    /\ store = << >>
    /\ nodes = MapInsert(<< >>, r, DefaultNode)
    /\ root = r
    /\ slots_at_height = SortedNew
    /\ blocks_at_height = MapInsert(<< >>, height, << r >>)

Init ==
    /\ \E r \in Roots, height \in 0..MaxHeight : TreeNew(r, height)
    /\ chain = << >>
    /\ pc = "idle"
    /\ hash = ZERO
    /\ block_hash = ZERO
    /\ stack = << >>
    /\ result = "-"
    /\ call = NoCall


\* Block Store and Height Index populate (the external collaborator): the
\* store gets the blocks of chain ch with their skip lists, the slots in S
\* are registered as heights and the blocks in R are listed at the height
\* of their slot.
RECURSIVE InsertAll(_, _)
InsertAll(list, S) ==
    IF S = {} THEN list
    ELSE LET x == CHOOSE y \in S : TRUE IN InsertAll(SortedInsert(list, x), S \ {x})

RECURSIVE SeqOfSet(_)
SeqOfSet(S) ==
    IF S = {} THEN << >>
    ELSE LET x == CHOOSE y \in S : \A z \in S : y <= z IN << x >> \o SeqOfSet(S \ {x})

Registered(ch, slots, old, R) ==
    [k \in (0..(Len(slots) - 1)) \cup DOMAIN old |->
        LET was == IF k \in DOMAIN old THEN old[k] ELSE << >>
            here == IF k < Len(slots)
                    THEN { h \in R : ch[h].slot = slots[k + 1] /\ ~Contains(was, h) }
                    ELSE {}
        IN was \o SeqOfSet(here)]

SlotsOf(ch) == { ch[h].slot : h \in DOMAIN ch }

Populate(ch, S, R) ==
    /\ chain' = ch
    /\ store' = StoreOf(ch)
    /\ slots_at_height' = InsertAll(slots_at_height, S)
    /\ blocks_at_height' = Registered(ch, slots_at_height', blocks_at_height, R)
    /\ UNCHANGED << nodes, root, pc, hash, block_hash, stack, result, call >>

\* add_node(h, bh) is entered: find_prev_in_tree(h, 0..slots_at_height.len())
AddNodeCall(h, bh) ==
    /\ pc = "idle"
    /\ pc' = "find_prev_in_tree"
    /\ hash' = h
    /\ block_hash' = bh
    /\ stack' = << << 0, SortedLen(slots_at_height) >> >>
    /\ result' = "-"
    /\ UNCHANGED << chain, store, nodes, root, slots_at_height,
                    blocks_at_height, call >>

TopFrame == Frame(hash, stack[Len(stack)])

OnStack(r) == \E i \in 1..Len(stack) : stack[i] = r

\* the innermost frame calls find_prev_in_tree on a range no frame has
FindPrevRecurse ==
    /\ pc = "find_prev_in_tree"
    /\ TopFrame.kind = "recurse"
    /\ ~OnStack(TopFrame.next)
    /\ stack' = Append(stack, TopFrame.next)
    /\ UNCHANGED << chain, store, nodes, root, slots_at_height,
                    blocks_at_height, pc, hash, block_hash, result, call >>

\* the innermost frame calls find_prev_in_tree on the range of a frame
\* that is already on the stack: the same call is made again without end
FindPrevDiverge ==
    /\ pc = "find_prev_in_tree"
    /\ TopFrame.kind = "recurse"
    /\ OnStack(TopFrame.next)
    /\ pc' = "diverged"
    /\ UNCHANGED << chain, store, nodes, root, slots_at_height,
                    blocks_at_height, hash, block_hash, stack, result, call >>

\* add_node that puts the new node into the mapping before it looks for
\* the node to hang it under
AddNodeOutcomeEager ==
    LET f == TopFrame
        eager == MapInsert(nodes, hash, [DefaultNode EXCEPT !.block_hash = block_hash])
    IN IF f.kind = "get" /\ f.key \in DOMAIN nodes
       THEN AddNodeBody(f.key, hash, block_hash, eager)
       ELSE [ok |-> FALSE, nodes |-> eager]

\* what add_node does once find_prev_in_tree has returned
AddNodeOutcome ==
    LET f == TopFrame IN
    IF f.kind = "get" /\ f.key \in DOMAIN nodes
    THEN AddNodeBody(f.key, hash, block_hash, nodes)
    ELSE [ok |-> FALSE, nodes |-> nodes]

\* add_node returns None
AddNodeMiss ==
    /\ pc = "find_prev_in_tree"
    /\ TopFrame.kind \in {"none", "get"}
    /\ ~AddNodeOutcome.ok
    /\ nodes' = AddNodeOutcome.nodes
    /\ pc' = "idle"
    /\ stack' = << >>
    /\ result' = "None"
    /\ UNCHANGED << chain, store, root, slots_at_height, blocks_at_height,
                    hash, block_hash, call >>

\* add_node returning Some(()) after registering the slot of the new block
AddNodeDoneRegistering ==
    /\ pc = "find_prev_in_tree"
    /\ TopFrame.kind = "get"
    /\ AddNodeOutcome.ok
    /\ nodes' = AddNodeOutcome.nodes
    /\ slots_at_height' = SortedInsert(slots_at_height, store[hash].slot)
    /\ pc' = "idle"
    /\ stack' = << >>
    /\ result' = "Some"
    /\ UNCHANGED << chain, store, root, blocks_at_height,
                    hash, block_hash, call >>

\* add_node returns Some(())
AddNodeDone ==
    /\ pc = "find_prev_in_tree"
    /\ TopFrame.kind = "get"
    /\ AddNodeOutcome.ok
    /\ nodes' = AddNodeOutcome.nodes
    /\ pc' = "idle"
    /\ stack' = << >>
    /\ result' = "Some"
    /\ UNCHANGED << chain, store, root, slots_at_height, blocks_at_height,
                    hash, block_hash, call >>

\* the collaborator populates a new tree before the first add_node
PopulateAny ==
    /\ pc = "idle"
    /\ result = "-"
    /\ chain = << >>
    /\ \E ch \in UniformChains :
         \E S \in SUBSET SlotsOf(ch) :
           \E R \in SUBSET { h \in ChainBlocks : ch[h].slot \in S } :
             Populate(ch, S, R)

Next ==
    \/ PopulateAny
    \/ \E h \in Hashes : \E bh \in BlockHashArgs(h) : AddNodeCall(h, bh)
    \/ FindPrevRecurse
    \/ FindPrevDiverge
    \/ AddNodeMiss
    \/ AddNodeDone

Spec == Init /\ [][Next]_vars

\* ------------------------------------------------------------ SpecFn
\* The two store functions applied, once per behaviour, to the stores of
\* the chain family.
InitFn ==
    /\ chain \in ChainFamily
    /\ store = StoreOf(chain)
    /\ nodes = << >>
    /\ root = ZERO
    /\ slots_at_height = SortedNew
    /\ blocks_at_height = << >>
    /\ pc = "idle"
    /\ hash = ZERO
    /\ block_hash = ZERO
    /\ stack = << >>
    /\ result = "-"
    /\ call = NoCall

TreeUnchanged ==
    UNCHANGED << chain, store, nodes, root, slots_at_height, blocks_at_height,
                 pc, hash, block_hash, stack, result >>

CallGetAncestor(slot, start) ==
    /\ call.op = "none"
    /\ LET r == AncestorRun(slot, start, store) IN
       call' = [op |-> "get_ancestor_hash_at_slot", slot |-> slot,
                a |-> start, b |-> ZERO, out |-> r.out, idx |-> r.idx,
                deltas |-> r.deltas, panic |-> r.panic, at |-> r.at]
    /\ TreeUnchanged

CallLca(a, b) ==
    /\ call.op = "none"
    /\ call' = [op |-> "find_least_common_ancestor", slot |-> 0,
                a |-> a, b |-> b,
                out |-> find_least_common_ancestor(a, b, store),
                idx |-> {}, deltas |-> {}, panic |-> FALSE, at |-> None]
    /\ TreeUnchanged

NextFn ==
    \/ \E slot \in 0..MaxQuerySlot, start \in Hashes : CallGetAncestor(slot, start)
    \/ \E a \in Hashes, b \in Hashes : CallLca(a, b)

SpecFn == InitFn /\ [][NextFn]_vars


\* ------------------------------------------------------------ SpecList
\* A SortedList on its own (slots_at_height of a tree with nothing else in
\* it): any sequence of insert calls, with nth and len read in between.
InitList ==
    /\ chain = << >>
    /\ store = << >>
    /\ nodes = << >>
    /\ root = ZERO
    /\ slots_at_height = SortedNew
    /\ blocks_at_height = << >>
    /\ pc = "idle"
    /\ hash = ZERO
    /\ block_hash = ZERO
    /\ stack = << >>
    /\ result = "-"
    /\ call = NoCall

ListUnchanged ==
    UNCHANGED << chain, store, nodes, root, blocks_at_height,
                 pc, hash, block_hash, stack, result >>

ListInsert(key) ==
    /\ slots_at_height' = SortedInsert(slots_at_height, key)
    /\ call' = [NoCall EXCEPT !.op = "insert", !.slot = key]
    /\ ListUnchanged

ListNth(n) ==
    /\ call' = [NoCall EXCEPT !.op = "nth", !.slot = n,
                               !.out = SortedNth(slots_at_height, n)]
    /\ UNCHANGED slots_at_height
    /\ ListUnchanged

ListLen ==
    /\ call' = [NoCall EXCEPT !.op = "len",
                               !.out = Some(SortedLen(slots_at_height))]
    /\ UNCHANGED slots_at_height
    /\ ListUnchanged

NextList ==
    \/ \E key \in 0..MaxKey : ListInsert(key)
    \/ \E n \in 0..(MaxKey + 2) : ListNth(n)
    \/ ListLen

SpecList == InitList /\ [][NextList]_vars


\* ============================================================ claims

\* ------------------------------------------------------------ C1
\* the chain of the end-to-end scenario: G = 1 (slot 0), M = 2 (slot 5,
\* child of G), X = 3 and Y = 4 (slot 10, children of M), the tree rooted
\* at G with height ordinal 0
ScenarioC1 ==
    /\ chain # << >>
    /\ root = Genesis
    /\ chain[2] = [slot |-> 5, parent |-> 1]
    /\ chain[3] = [slot |-> 10, parent |-> 2]
    /\ chain[4] = [slot |-> 10, parent |-> 2]

AddNodeReturns == pc = "find_prev_in_tree" /\ pc' = "idle"

\* C1: in the end-to-end scenario, add_node for X on the tree that holds
\* only G returns Some(()) and leaves exactly the nodes G and X with X's
\* parent G; add_node for Y on that tree then returns Some(()) and leaves
\* exactly the nodes G, M, X, Y with M's parent G and X's and Y's parent M.
C1_EndToEnd ==
    [][ ScenarioC1 /\ AddNodeReturns =>
          /\ (hash = 3 /\ DOMAIN nodes = {1}) =>
                /\ result' = "Some"
                /\ DOMAIN nodes' = {1, 3}
                /\ nodes'[3].parent_hash = Some(1)
          /\ (hash = 4 /\ DOMAIN nodes = {1, 3}) =>
                /\ result' = "Some"
                /\ DOMAIN nodes' = {1, 2, 3, 4}
                /\ nodes'[2].parent_hash = Some(1)
                /\ nodes'[3].parent_hash = Some(2)
                /\ nodes'[4].parent_hash = Some(2) ]_vars

\* ------------------------------------------------------------ C2
\* C2: for a store whose skip entries are the ancestors exactly 2^i slots
\* behind, get_ancestor_hash_at_slot(S, B) with S < B.slot returns B's
\* ancestor at slot S when there is one and a miss when there is none.
C2_AncestorCorrect ==
    (/\ call.op = "get_ancestor_hash_at_slot"
     /\ call.a \in DOMAIN chain
     /\ call.slot < chain[call.a].slot)
    => call.out = TrueAncestorAt(chain, call.a, call.slot)

\* ------------------------------------------------------------ C3
\* C3: for two blocks A and B of the store whose deepest common ancestor is
\* X, find_least_common_ancestor(A, B) returns X.
C3_LcaCorrect ==
    (/\ call.op = "find_least_common_ancestor"
     /\ call.a \in DOMAIN chain
     /\ call.b \in DOMAIN chain
     /\ IsSome(TrueLca(chain, call.a, call.b)))
    => call.out = TrueLca(chain, call.a, call.b)

LinksAgree(ns) ==
    \A c \in DOMAIN ns :
        (IsSome(ns[c].parent_hash) /\ Unwrap(ns[c].parent_hash) \in DOMAIN ns)
        => Contains(ns[Unwrap(ns[c].parent_hash)].children, c)

C6_Terminates == pc # "diverged"

Inserted == DOMAIN nodes \ {root}

\* the blocks that are the deepest common ancestor of two diverging
\* inserted blocks
BranchPoints ==
    { Unwrap(TrueLca(chain, ab[1], ab[2])) :
        ab \in { xy \in Inserted \X Inserted :
                    /\ Diverging(chain, xy[1], xy[2])
                    /\ IsSome(TrueLca(chain, xy[1], xy[2])) } }

C9_LcaSymmetric ==
    call.op = "find_least_common_ancestor"
    => call.out = find_least_common_ancestor(call.b, call.a, store)

\* a call on two stored blocks of different slots that found an ancestor
C9_Witness ==
    /\ call.op = "find_least_common_ancestor"
    /\ call.a \in DOMAIN store
    /\ call.b \in DOMAIN store
    /\ store[call.a].slot < store[call.b].slot
    /\ IsSome(call.out)
    /\ Unwrap(call.out) \in DOMAIN store

\* ------------------------------------------------------------ C10
\* C10: get_ancestor_hash_at_slot reads the skip list only at positions
\* 0..SKIP_LIST_LEN-1 and every cursor.slot - slot it computes is at least
\* 1 (no u64 underflow), so no call panics.
C10_NoPanic ==
    call.op = "get_ancestor_hash_at_slot"
    => /\ call.idx \subseteq 0..(SKIP_LIST_LEN - 1)
       /\ \A d \in call.deltas : d >= 1
       /\ ~call.panic

\* a call that took the far jump through the last skip entry
C10_Witness ==
    /\ call.op = "get_ancestor_hash_at_slot"
    /\ (SKIP_LIST_LEN - 1) \in call.idx
    /\ \E d \in call.deltas : d > SKIP_LIST_LEN

\* ------------------------------------------------------------ C11
\* C11: every height that is a key of blocks_at_height is resolved by
\* slots_at_height.nth, in every state from Tree::new on.
C11_HeightKeysResolve ==
    \A k \in DOMAIN blocks_at_height : IsSome(slot_at_height(k))

\* ------------------------------------------------------------ C12
\* the tree as Tree::new built it: no call has been made on it
Constructed == pc = "idle" /\ result = "-" /\ chain = << >>

\* C12: after Tree::new(root, h) the node mapping has exactly one entry,
\* keyed by root, of height 0 with no parent and no children, the root
\* field is that key, and blocks_at_height has the single key h, one of the
\* heights passed, mapped to the list [root].
C12_NewTree ==
    Constructed
    => /\ DOMAIN nodes = {root}
       /\ root \in Roots
       /\ nodes[root].height = 0
       /\ nodes[root].parent_hash = None
       /\ nodes[root].children = << >>
       /\ \E h \in 0..MaxHeight :
             /\ DOMAIN blocks_at_height = {h}
             /\ blocks_at_height[h] = << root >>

\* Tree::new(Genesis + 1, MaxHeight) has returned
C12_Witness ==
    /\ Constructed
    /\ root = Genesis + 1
    /\ MaxHeight \in DOMAIN blocks_at_height

\* ------------------------------------------------------------ C13
\* the values a list holds
Elems(list) == { list[i] : i \in 1..Len(list) }

\* C13: an insert adds its key to the values held and nothing else, so the
\* list holds the distinct values inserted so far; len() is their number,
\* nth(i) is a value for every i below len() and strictly greater than
\* nth(i - 1), nth(i) is a miss for every i from len() on, and the nth and
\* len calls made return just that.
C13_SortedList ==
    [][ LET before == slots_at_height
            list == slots_at_height'
            n == SortedLen(list)
        IN /\ call'.op = "insert"
              => Elems(list) = Elems(before) \cup {call'.slot}
           /\ call'.op # "insert" => list = before
           /\ n = Cardinality(Elems(list))
           /\ \A i \in 0..(n - 1) : IsSome(SortedNth(list, i))
           /\ \A i \in 1..(n - 1) :
                 Unwrap(SortedNth(list, i - 1)) < Unwrap(SortedNth(list, i))
           /\ \A i \in n..(MaxKey + 2) : SortedNth(list, i) = None
           /\ call'.op = "nth"
              => call'.out = IF call'.slot < n THEN Some(list[call'.slot + 1])
                             ELSE None
           /\ call'.op = "len" => call'.out = Some(Cardinality(Elems(list)))
      ]_vars

\* the list holds three values after inserts and nth was asked at len()
C13_Witness ==
    /\ slots_at_height = << 0, 2, 3 >>
    /\ call.op = "nth"
    /\ call.slot = 3
    /\ call.out = None

\* ------------------------------------------------------------ C14
\* C14: no step removes a key from the node mapping, and root is a key of
\* it in the first state and after every step.
C14_NodesNeverDeleted ==
    /\ root \in DOMAIN nodes
    /\ [][ /\ DOMAIN nodes \subseteq DOMAIN nodes'
           /\ root' \in DOMAIN nodes' ]_vars

\* two add_node calls have succeeded on one tree
C14_Witness ==
    /\ result = "Some"
    /\ root \in DOMAIN nodes
    /\ Cardinality(DOMAIN nodes) >= 3

\* ------------------------------------------------------------ C15
\* every node of the mapping is a block listed in blocks_at_height at the
\* height of its slot, and at least one height is registered
IndexCoversNodes ==
    /\ SortedLen(slots_at_height) >= 1
    /\ \A k \in DOMAIN nodes :
          /\ k \in DOMAIN chain
          /\ \E h \in 0..(SortedLen(slots_at_height) - 1) :
                /\ slot_at_height(h) = Some(chain[k].slot)
                /\ h \in DOMAIN blocks_at_height
                /\ Contains(blocks_at_height[h], k)

\* the heights at which the ancestor of block h at that height's slot is
\* listed in blocks_at_height
ListedHeights(h) ==
    { ht \in 0..(SortedLen(slots_at_height) - 1) :
        LET a == TrueAncestorAt(chain, h, Unwrap(slot_at_height(ht))) IN
        /\ IsSome(a)
        /\ ht \in DOMAIN blocks_at_height
        /\ Contains(blocks_at_height[ht], Unwrap(a)) }

\* the linear scan: the ancestor of h at the greatest listed height
LinearScan(h) ==
    LET top == CHOOSE ht \in ListedHeights(h) : \A o \in ListedHeights(h) : o <= ht
    IN Unwrap(TrueAncestorAt(chain, h, Unwrap(slot_at_height(top))))

\* C15: when the Height Index covers every node and the block of the call
\* descends from root, find_prev_in_tree(hash, 0..n) returns, and what it
\* returns is the stored node of the block's ancestor at the greatest
\* height at which that ancestor is listed.
C15_FindPrevIsLinearScan ==
    (/\ pc \in {"find_prev_in_tree", "diverged"}
     /\ chain # << >>
     /\ IndexCoversNodes
     /\ hash \in DOMAIN chain
     /\ root \in TrueAncestors(chain, hash))
    => /\ pc # "diverged"
       /\ TopFrame.kind # "recurse"
          => /\ TopFrame.kind = "get"
             /\ TopFrame.key \in DOMAIN nodes
             /\ TopFrame.key = LinearScan(hash)

\* ------------------------------------------------------------ C16
\* C16: get_ancestor_hash_at_slot(S, start) is a miss when S is the slot of
\* start or a later one (start itself is not returned at its own slot), and
\* it is a miss when the last cursor it looked at, start or a block reached
\* by a jump, has a slot of at most S.
C16_EqualSlotBoundary ==
    call.op = "get_ancestor_hash_at_slot"
    => /\ (call.a \in DOMAIN store /\ call.slot >= store[call.a].slot)
          => call.out = None
       /\ (IsSome(call.at) /\ Unwrap(call.at) <= call.slot)
          => call.out = None

\* a call from a block after slot S whose jump reached a block before S
C16_WitnessJump ==
    /\ call.op = "get_ancestor_hash_at_slot"
    /\ call.a \in DOMAIN store
    /\ store[call.a].slot > call.slot
    /\ call.idx # {}
    /\ IsSome(call.at)
    /\ Unwrap(call.at) < call.slot
    /\ call.out = None

\* a call asking a stored block after genesis for its own slot
C16_WitnessEqual ==
    /\ call.op = "get_ancestor_hash_at_slot"
    /\ call.a \in DOMAIN store
    /\ store[call.a].slot = call.slot
    /\ call.slot > 0

\* ------------------------------------------------------------ C17
\* block k is listed at some height of blocks_at_height
Listed(k) == \E h \in DOMAIN blocks_at_height : Contains(blocks_at_height[h], k)

\* C17: no step of an add_node call, from its entry to its return of
\* Some(()) or None, changes root, the Block Store, slots_at_height or
\* blocks_at_height; a node the call inserted is listed at no height
\* unless it was listed before the call.
C17_AddNodeFrame ==
    [][ (pc = "find_prev_in_tree" \/ pc' = "find_prev_in_tree")
        => /\ root' = root
           /\ store' = store
           /\ slots_at_height' = slots_at_height
           /\ blocks_at_height' = blocks_at_height
           /\ \A k \in DOMAIN nodes' \ DOMAIN nodes : Listed(k)' => Listed(k)
      ]_vars

\* add_node has inserted a block that no height lists
C17_Witness ==
    /\ result = "Some"
    /\ hash \in DOMAIN nodes
    /\ hash # root
    /\ ~Listed(hash)

\* ------------------------------------------------------------ C18
\* C18: an add_node call that returns None leaves the node mapping as it
\* was when the call was made.
C18_MissLeavesNodes ==
    [][ (AddNodeReturns /\ result' = "None") => nodes' = nodes ]_vars

\* a miss on a populated tree that holds an inserted node, for a stored
\* block that is not in the mapping
C18_Witness ==
    /\ result = "None"
    /\ pc = "idle"
    /\ Cardinality(DOMAIN nodes) >= 2
    /\ hash \in DOMAIN store
    /\ hash \notin DOMAIN nodes

\* ------------------------------------------------------------ C19
\* the tree has been changed through add_node only
AddNodeOnly == chain = << >>

\* C19: on a tree changed through add_node only, slots_at_height is empty,
\* find_prev_in_tree returns None from its first frame, no add_node call
\* has returned Some(()), and the node mapping is the single root entry
\* Tree::new put there.
C19_NewTreeAlwaysMisses ==
    AddNodeOnly
    => /\ slots_at_height = SortedNew
       /\ pc = "find_prev_in_tree" => (Len(stack) = 1 /\ TopFrame.kind = "none")
       /\ pc # "diverged"
       /\ result # "Some"
       /\ nodes = MapInsert(<< >>, root, DefaultNode)

\* add_node(root, root) has returned None on such a tree
C19_Witness ==
    /\ AddNodeOnly
    /\ pc = "idle"
    /\ result = "None"
    /\ hash = root
    /\ block_hash = root

====
